---------------------------- MODULE Spec2Model ----------------------------
(***************************************************************************)
(* postbin: an HTTP request bin backed by two SQLite tables (src/main.go). *)
(*                                                                         *)
(* Every handler is a sequence of SQL statements; a statement is atomic,   *)
(* a handler is not.  net/http serves each request on a goroutine of its   *)
(* own, so handlers interleave between their statements.  One action of    *)
(* the model is one handler step, up to and including its next SQL         *)
(* statement; a handler between two statements is a record of the bag      *)
(* inflight (goroutines have no identity: two handlers at the same place   *)
(* with the same locals are two copies of one record).                     *)
(*                                                                         *)
(* The database is opened as "./postbin.db" with the driver's defaults:    *)
(* SQLite does not enforce FOREIGN KEY clauses unless asked to, and the    *)
(* program never asks, so the FOREIGN KEY of the requests table constrains *)
(* nothing.  PRIMARY KEY uniqueness is enforced.                           *)
(***************************************************************************)
EXTENDS Integers, Sequences, FiniteSets, Bags, TLC

\* 30 * 60 * 1000: a bin's time to live, in milliseconds.
TTL == 1800000

\* ---- bounds of the model
\* The Unix time in milliseconds at which the model starts (positive).
StartTime == 1
\* Handlers in flight at the same time.
NumProcs == 2
\* Requests captured over a whole behaviour.
MaxCaptures == 2
\* Milliseconds the clock may advance one by one, before and after its one
\* jump by a whole TTL.
MaxSkew == 1

\* generateID draws 4 random bytes: any identifier may come out, also one
\* that is or was in use.  Two identifiers of each kind stand for the 2^32:
\* enough for two bins, two stored requests and the reuse of an identifier.
BinIds == {1, 2}
ReqIds == {1, 2}
\* The empty string: no identifier.
NoId == 0

VARIABLES
    now,         \* time.Now().UnixMilli()
    bins,        \* table bins: rows [binId, created, expires]
    requests,    \* table requests: rows [reqId, binId, inserted, seq]
    inflight,    \* the handlers between two statements: a bag of their locals
    ev,          \* what the last step answered
    storeFaults, \* whether the store may fail a statement (disk, lock, ...)
    trackIds,    \* whether the history of shifted identifiers is kept
    nseq,        \* history: how many requests were stored so far
    stored,      \* history: per bin id, requests captured less requests shifted
    shiftCount,  \* history: shiftCount[s] counts the Shifts that returned
                 \* the s-th stored request
    deleted,     \* history: bin ids deleted and not created again since
    fresh,       \* history: bin ids created, and not captured into since
    shifted,     \* history: the <<binId, reqId>> a Shift has returned
    wire,        \* one request's payload: as submitted, as stored in the
                 \* columns of its row, and as Get or Shift decodes it
    route        \* one GET under /api/bin/: its path and how it is answered

vars == <<now, bins, requests, inflight, ev, storeFaults, trackIds, nseq, stored,
          shiftCount, deleted, fresh, shifted, wire, route>>

\* The tables, the clock and the handlers: all but the payload and the path.
storeVars == <<now, bins, requests, inflight, ev, storeFaults, trackIds, nseq,
               stored, shiftCount, deleted, fresh, shifted>>

\* What no handler of the store changes.
fixed == <<storeFaults, trackIds, wire, route>>

NoBin == [binId |-> NoId, created |-> 0, expires |-> 0]
NoRow == [reqId |-> NoId, binId |-> NoId, inserted |-> 0, seq |-> 0]

\* A handler between two statements: the statement it runs next, and its
\* locals binID, bin (getBinHandler) and req (shiftRequestHandler).
Handler(pc, binID, bin, req) ==
    [pc |-> pc, binID |-> binID, bin |-> bin, req |-> req]

\* The answer of a handler step.  status is the HTTP outcome: "Created"
\* 201, "OK" 200, "NotFound" 404, "Gone" 410, "StorageError" 500; "Pending"
\* when the handler goes on to its next statement.  fault: a statement of
\* the step failed in the store.
Event(op, binID, reqID, status, entries, req, fault) ==
    [op |-> op, binId |-> binID, reqId |-> reqID, status |-> status,
     entries |-> entries, req |-> req, fault |-> fault]

NoEvent == Event("none", NoId, NoId, "Pending", 0, NoRow, FALSE)

\* No payload under way, no path being routed.
NoPayload == [method |-> "", headers |-> <<>>, query |-> <<>>, body |-> <<>>]
NoWire == [stage |-> "none", sent |-> NoPayload, cols |-> NoPayload, got |-> NoPayload]
NoRoute == [path |-> <<>>, answer |-> "none"]

\* ---- the store's queries

\* Mutation: the SELECT of a bin hiding the bins past their deadline.
LiveBinRows(b) == {x \in bins : x.binId = b /\ now <= x.expires}

\* SELECT ... FROM bins WHERE bin_id = ?
BinRows(b) == {x \in bins : x.binId = b}

\* Mutation: the COUNT without its WHERE clause.
CountAll(b) == Cardinality(requests)

\* SELECT COUNT(*) FROM requests WHERE bin_id = ?
CountFor(b) == Cardinality({r \in requests : r.binId = b})

\* Mutation: the point lookup by req_id alone.
RequestRowsAnyBin(b, q) == {r \in requests : r.reqId = q}

\* SELECT ... FROM requests WHERE bin_id = ? AND req_id = ?
RequestRows(b, q) == {r \in requests : r.binId = b /\ r.reqId = q}

\* Mutation: the oldest request of a bin, none once the bin is past its
\* deadline.
OldestLiveRows(b) ==
    {r \in requests :
        /\ r.binId = b
        /\ \A o \in requests : o.binId = b => r.inserted <= o.inserted
        /\ ~\E x \in bins : x.binId = b /\ now > x.expires}

\* SELECT ... FROM requests WHERE bin_id = ? ORDER BY inserted ASC LIMIT 1:
\* the rows the statement may return.  SQL leaves the order of rows with
\* equal sort keys undefined, so any row with the least inserted may be it.
OldestRows(b) ==
    {r \in requests : /\ r.binId = b
                      /\ \A o \in requests : o.binId = b => r.inserted <= o.inserted}

\* Mutation: the DELETE that removes no row.
DeleteNoRequest(q) == requests

\* DELETE FROM requests WHERE req_id = ?
DeleteRequest(q) == {r \in requests : r.reqId # q}

\* Mutation: the DELETE with its condition inverted.
DeleteOtherBinRows(b) == {x \in bins : x.binId = b}

\* DELETE FROM bins WHERE bin_id = ?
DeleteBinRow(b) == {x \in bins : x.binId # b}

\* Mutation: the comparison turned around.
ExpiredBeforeDeadline(expires) == now < expires

\* Mutation: a bin that expires at its deadline, not after it.
ExpiredAtDeadline(expires) == now >= expires

\* time.Now().UnixMilli() > expires
Expired(expires) == now > expires

\* The outcomes a statement may have in the store: it fails only when the
\* store is one that may fail.
Failures == IF storeFaults THEN BOOLEAN ELSE {FALSE}

\* ---- the handlers in flight

\* A handler may start while fewer than n are in flight.
CanStart(n) == BagCardinality(inflight) < n

\* The handlers in flight that run the statement pc next.
At(pc) == {h \in BagToSet(inflight) : h.pc = pc}

\* The captures between their check and their INSERT.
Capturing == BagCardinality([h \in At("capture_insert") |-> inflight[h]])

Enter(h) == inflight' = inflight (+) SetToBag({h})

Leave(h) == inflight' = inflight (-) SetToBag({h})

\* Mutation: the lifetime added in seconds to a clock in milliseconds.
ExpiresInSeconds(t) == t + 30 * 60

\* expires := now + (30 * 60 * 1000)
ExpiresAt(t) == t + TTL

\* Mutation: a bins table without its key.
BinIdNeverTaken(id) == FALSE

\* bin_id TEXT PRIMARY KEY: an INSERT of a stored bin_id fails
BinIdTaken(id) == \E x \in bins : x.binId = id

\* req_id TEXT PRIMARY KEY: an INSERT of a stored req_id fails
ReqIdTaken(id) == \E r \in requests : r.reqId = id

\* ---- createBinHandler
CreateBin(n) ==
    /\ CanStart(n)
    /\ \E id \in BinIds, fail \in Failures :
         LET expires == ExpiresAt(now)
             row == [binId |-> id, created |-> now, expires |-> expires]
         IN  IF fail \/ BinIdTaken(id)
             THEN \* the INSERT fails: the store, or PRIMARY KEY(bin_id)
                  /\ ev' = Event("CreateBin", id, NoId, "StorageError", 0, NoRow, fail)
                  /\ UNCHANGED <<bins, deleted, fresh>>
             ELSE /\ bins' = bins \cup {row}
                  /\ ev' = Event("CreateBin", id, NoId, "Created", 0, NoRow, FALSE)
                  /\ deleted' = deleted \ {id}
                  /\ fresh' = fresh \cup {id}
    /\ UNCHANGED <<shifted, now, requests, inflight, fixed, nseq, stored, shiftCount>>

\* ---- getBinHandler: the SELECT of the bin
GetBinSelect(n) ==
    /\ CanStart(n)
    /\ \E b \in BinIds, fail \in Failures :
         IF fail
         THEN /\ ev' = Event("GetBin", b, NoId, "StorageError", 0, NoRow, TRUE)
              /\ UNCHANGED inflight
         ELSE IF BinRows(b) = {}
         THEN /\ ev' = Event("GetBin", b, NoId, "NotFound", 0, NoRow, FALSE)
              /\ UNCHANGED inflight
         ELSE \E row \in BinRows(b) :
              /\ Enter(Handler("getbin_count", b, row, NoRow))
              /\ ev' = Event("GetBin", b, NoId, "Pending", 0, NoRow, FALSE)
    /\ UNCHANGED <<shifted, now, bins, requests, fixed, nseq, stored, shiftCount,
                   deleted, fresh>>

\* ---- getBinHandler: the SELECT COUNT(*) and the response
GetBinCount ==
    /\ \E h \in At("getbin_count"), fail \in Failures :
         /\ IF fail
            THEN ev' = Event("GetBin", h.binID, NoId, "StorageError", 0, NoRow, TRUE)
            ELSE ev' = Event("GetBin", h.bin.binId, NoId, "OK", CountFor(h.binID),
                             NoRow, FALSE)
         /\ Leave(h)
    /\ UNCHANGED <<shifted, now, bins, requests, fixed, nseq, stored, shiftCount,
                   deleted, fresh>>

\* ---- deleteBinHandler
DeleteBin(n) ==
    /\ CanStart(n)
    /\ \E b \in BinIds, fail \in Failures :
         IF fail
         THEN /\ ev' = Event("DeleteBin", b, NoId, "StorageError", 0, NoRow, TRUE)
              /\ UNCHANGED <<bins, deleted, fresh>>
         ELSE /\ bins' = DeleteBinRow(b)
              /\ ev' = Event("DeleteBin", b, NoId, "OK", 0, NoRow, FALSE)
              /\ deleted' = deleted \cup {b}
              /\ fresh' = fresh \ {b}
    /\ UNCHANGED <<shifted, now, requests, inflight, fixed, nseq, stored, shiftCount>>

\* ---- captureRequestHandler: the SELECT of expires_at and the two checks.
\* Only sql.ErrNoRows is looked at: after any other error expires still
\* holds its zero value and the handler goes on to the expiry check.
CaptureCheck(n) ==
    /\ CanStart(n)
    /\ nseq + Capturing < MaxCaptures
    /\ \E b \in BinIds, fail \in Failures :
         IF ~fail /\ BinRows(b) = {}
         THEN /\ ev' = Event("Capture", b, NoId, "NotFound", 0, NoRow, FALSE)
              /\ UNCHANGED inflight
         ELSE \E expires \in (IF fail THEN {0} ELSE {x.expires : x \in BinRows(b)}) :
              IF Expired(expires)
              THEN /\ ev' = Event("Capture", b, NoId, "Gone", 0, NoRow, fail)
                   /\ UNCHANGED inflight
              ELSE /\ Enter(Handler("capture_insert", b, NoBin, NoRow))
                   /\ ev' = Event("Capture", b, NoId, "Pending", 0, NoRow, fail)
    /\ UNCHANGED <<shifted, now, bins, requests, fixed, nseq, stored, shiftCount,
                   deleted, fresh>>

\* ---- captureRequestHandler: generateID, the INSERT and the response
CaptureInsert ==
    /\ \E h \in At("capture_insert"), id \in ReqIds, fail \in Failures :
         LET b == h.binID
             row == [reqId |-> id, binId |-> b, inserted |-> now,
                     seq |-> nseq + 1]
         IN  /\ IF fail \/ ReqIdTaken(id)
                THEN \* the INSERT fails: the store, or PRIMARY KEY(req_id)
                     /\ ev' = Event("Capture", b, id, "StorageError", 0, NoRow, fail)
                     /\ UNCHANGED <<requests, nseq, stored, shiftCount, fresh>>
                ELSE /\ requests' = requests \cup {row}
                     /\ ev' = Event("Capture", b, id, "OK", 0, row, FALSE)
                     /\ nseq' = nseq + 1
                     /\ stored' = [stored EXCEPT ![b] = @ + 1]
                     /\ shiftCount' = Append(shiftCount, 0)
                     /\ fresh' = fresh \ {b}
             /\ Leave(h)
    /\ UNCHANGED <<shifted, now, bins, fixed, deleted>>

\* ---- getRequestHandler
GetRequest(n) ==
    /\ CanStart(n)
    /\ \E b \in BinIds, q \in ReqIds, fail \in Failures :
         IF fail
         THEN ev' = Event("Get", b, q, "StorageError", 0, NoRow, TRUE)
         ELSE IF RequestRows(b, q) = {}
         THEN ev' = Event("Get", b, q, "NotFound", 0, NoRow, FALSE)
         ELSE \E row \in RequestRows(b, q) :
              ev' = Event("Get", b, q, "OK", 0, row, FALSE)
    /\ UNCHANGED <<shifted, now, bins, requests, inflight, fixed, nseq, stored,
                   shiftCount, deleted, fresh>>

\* ---- shiftRequestHandler: the SELECT of the oldest request
ShiftSelect(n) ==
    /\ CanStart(n)
    /\ \E b \in BinIds, fail \in Failures :
         IF fail
         THEN /\ ev' = Event("Shift", b, NoId, "StorageError", 0, NoRow, TRUE)
              /\ UNCHANGED inflight
         ELSE IF OldestRows(b) = {}
         THEN /\ ev' = Event("Shift", b, NoId, "NotFound", 0, NoRow, FALSE)
              /\ UNCHANGED inflight
         ELSE \E row \in OldestRows(b) :
              /\ Enter(Handler("shift_delete", b, NoBin, row))
              /\ ev' = Event("Shift", b, NoId, "Pending", 0, NoRow, FALSE)
    /\ UNCHANGED <<shifted, now, bins, requests, fixed, nseq, stored, shiftCount,
                   deleted, fresh>>

\* ---- shiftRequestHandler: the DELETE of the request read, and the response
ShiftDelete ==
    /\ \E h \in At("shift_delete"), fail \in Failures :
         LET row == h.req
         IN  /\ IF fail
                THEN /\ ev' = Event("Shift", h.binID, row.reqId, "StorageError", 0,
                                    NoRow, TRUE)
                     /\ UNCHANGED <<requests, stored, shiftCount, shifted>>
                ELSE /\ requests' = DeleteRequest(row.reqId)
                     /\ ev' = Event("Shift", h.binID, row.reqId, "OK", 0, row, FALSE)
                     /\ shiftCount' = [shiftCount EXCEPT ![row.seq] = @ + 1]
                     /\ stored' = [stored EXCEPT ![row.binId] = @ - 1]
                     /\ shifted' = IF trackIds THEN shifted \cup {<<h.binID, row.reqId>>}
                                                ELSE shifted
             /\ Leave(h)
    /\ UNCHANGED <<now, bins, fixed, nseq, deleted, fresh>>

\* ---- the clock: a millisecond passes, or a whole TTL does
Tick ==
    /\ \E d \in {1, TTL} :
         /\ d = 1 => (now - StartTime) % TTL < MaxSkew
         /\ d = TTL => now + TTL <= StartTime + TTL + MaxSkew
         /\ now' = now + d
    /\ ev' = NoEvent
    /\ UNCHANGED <<shifted, bins, requests, inflight, fixed, nseq, stored, shiftCount,
                   deleted, fresh>>

InitStore ==
    /\ now = StartTime
    /\ bins = {}
    /\ requests = {}
    /\ inflight = EmptyBag
    /\ ev = NoEvent
    /\ nseq = 0
    /\ stored = [b \in BinIds |-> 0]
    /\ shiftCount = <<>>
    /\ deleted = {}
    /\ fresh = {}
    /\ shifted = {}

Init ==
    /\ InitStore /\ storeFaults = FALSE /\ trackIds = FALSE
    /\ wire = NoWire /\ route = NoRoute

InitFault ==
    /\ InitStore /\ storeFaults = TRUE /\ trackIds = FALSE
    /\ wire = NoWire /\ route = NoRoute

\* As Init, keeping the history of the identifiers Shift has returned.
InitIds ==
    /\ InitStore /\ storeFaults = FALSE /\ trackIds = TRUE
    /\ wire = NoWire /\ route = NoRoute

\* Up to NumProcs handlers in flight, interleaving between statements.
Next ==
    \/ CreateBin(NumProcs)
    \/ GetBinSelect(NumProcs)
    \/ GetBinCount
    \/ DeleteBin(NumProcs)
    \/ CaptureCheck(NumProcs)
    \/ CaptureInsert
    \/ GetRequest(NumProcs)
    \/ ShiftSelect(NumProcs)
    \/ ShiftDelete
    \/ Tick

\* One request at a time: a handler starts when none is in flight.
NextSeq ==
    \/ CreateBin(1)
    \/ GetBinSelect(1)
    \/ GetBinCount
    \/ DeleteBin(1)
    \/ CaptureCheck(1)
    \/ CaptureInsert
    \/ GetRequest(1)
    \/ ShiftSelect(1)
    \/ ShiftDelete
    \/ Tick

\* Concurrent requests, a store that does not fail.
Spec == Init /\ [][Next]_vars

\* One request at a time, a store that does not fail.
SpecSeq == Init /\ [][NextSeq]_vars

\* One request at a time, a store whose statements may fail.
SpecFault == InitFault /\ [][NextSeq]_vars

\* One request at a time, with the history of shifted identifiers.
SpecIds == InitIds /\ [][NextSeq]_vars

\* ---------------------------------------------------------------------------
\* The payload of one captured request, from the wire to the row and back.
\* A string is its sequence of bytes.

\* Longest body, and most values under one header or query name.
MaxBodyLen == 2
MaxValues == 2

\* The bytes drawn: '"' and '<' (escaped in JSON), 'A', the two bytes of
\* U+00E9 (0xC3 0xA9, valid only in this order), and 0xFF (never valid UTF-8).
Bytes == {34, 60, 65, 195, 169, 255}

Strings(n) == UNION {[1..k -> Bytes] : k \in 0..n}

\* Header and query values: "A", U+00E9, and the byte 0xFF.
Values == {<<65>>, <<195, 169>>, <<255>>}

Methods == {"GET", "POST"}

\* r.Header, r.URL.Query(): no name, or one name with its values in order.
ValueLists == UNION {[1..k -> Values] : k \in 1..MaxValues}
MultiMaps == {<<>>} \cup {[name \in {"a"} |-> l] : l \in ValueLists}

\* utf8.DecodeRuneInString at s[i]: the width of a valid encoding, 0 for an
\* invalid byte (the three- and four-byte forms are not among Bytes).
RuneLen(s, i) ==
    IF s[i] < 128 THEN 1
    ELSE IF s[i] \in 194..223 /\ i < Len(s) /\ s[i + 1] \in 128..191 THEN 2
    ELSE 0

\* The hexadecimal digit (lower case) of v, and back.
HexDigit(v) == IF v < 10 THEN 48 + v ELSE 87 + v
HexVal(c) == IF c >= 97 THEN c - 87 ELSE c - 48

\* The six bytes \uXXXX
UEscape(cp) ==
    <<92, 117, HexDigit(cp \div 4096), HexDigit((cp \div 256) % 16),
      HexDigit((cp \div 16) % 16), HexDigit(cp % 16)>>

\* utf8.AppendRune
EncodeRune(cp) ==
    IF cp < 128 THEN <<cp>>
    ELSE IF cp < 2048 THEN <<192 + (cp \div 64), 128 + (cp % 64)>>
    ELSE <<224 + (cp \div 4096), 128 + ((cp \div 64) % 64), 128 + (cp % 64)>>

\* encoding/json, string encoder: quote and backslash take a backslash,
\* '<' '>' '&' and control bytes become \u00XX, an invalid byte becomes
\* the escape of U+FFFD, everything else is copied.
RECURSIVE EncodeFrom(_, _)
EncodeFrom(s, i) ==
    IF i > Len(s) THEN <<>>
    ELSE LET n == RuneLen(s, i)
         IN  IF n = 0 THEN UEscape(65533) \o EncodeFrom(s, i + 1)
             ELSE IF n = 2 THEN <<s[i], s[i + 1]>> \o EncodeFrom(s, i + 2)
             ELSE IF s[i] \in {34, 92} THEN <<92, s[i]>> \o EncodeFrom(s, i + 1)
             ELSE IF s[i] \in {60, 62, 38} \/ s[i] < 32
                  THEN UEscape(s[i]) \o EncodeFrom(s, i + 1)
             ELSE <<s[i]>> \o EncodeFrom(s, i + 1)

\* json.Marshal(string)
MarshalString(s) == <<34>> \o EncodeFrom(s, 1) \o <<34>>

\* encoding/json, unquote: the text between the quotes of t, escapes undone.
RECURSIVE DecodeFrom(_, _)
DecodeFrom(t, i) ==
    IF i >= Len(t) THEN <<>>
    ELSE IF t[i] = 92
         THEN IF t[i + 1] = 117
              THEN EncodeRune((HexVal(t[i + 2]) * 4096) + (HexVal(t[i + 3]) * 256)
                              + (HexVal(t[i + 4]) * 16) + HexVal(t[i + 5]))
                       \o DecodeFrom(t, i + 6)
              ELSE <<t[i + 1]>> \o DecodeFrom(t, i + 2)
         ELSE <<t[i]>> \o DecodeFrom(t, i + 1)

\* json.Unmarshal of a JSON string
UnmarshalString(t) == DecodeFrom(t, 2)

\* headers[name] = values[0]
FirstValues(m) == [name \in DOMAIN m |-> m[name][1]]

\* json.Marshal(map[string]string): a JSON object, as the function from its
\* member names to the JSON text of their values
MarshalMap(m) == [name \in DOMAIN m |-> MarshalString(m[name])]

\* json.Unmarshal into map[string]string
UnmarshalMap(j) == [name \in DOMAIN j |-> UnmarshalString(j[name])]

\* ---- captureRequestHandler: the payload read and bound to the INSERT
CaptureEncode ==
    /\ wire.stage = "sent"
    /\ wire' = [wire EXCEPT
                  !.stage = "stored",
                  !.cols = [method |-> wire.sent.method,
                            headers |-> MarshalMap(FirstValues(wire.sent.headers)),
                            query |-> MarshalMap(FirstValues(wire.sent.query)),
                            body |-> MarshalString(wire.sent.body)]]
    /\ UNCHANGED <<storeVars, route>>

\* ---- getRequestHandler, shiftRequestHandler: the row scanned and decoded
RetrieveDecode ==
    /\ wire.stage = "stored"
    /\ wire' = [wire EXCEPT
                  !.stage = "got",
                  !.got = [method |-> wire.cols.method,
                           headers |-> UnmarshalMap(wire.cols.headers),
                           query |-> UnmarshalMap(wire.cols.query),
                           body |-> UnmarshalString(wire.cols.body)]]
    /\ UNCHANGED <<storeVars, route>>

\* Any request may be submitted.
InitCodec ==
    /\ InitStore /\ storeFaults = FALSE /\ trackIds = FALSE /\ route = NoRoute
    /\ \E m \in Methods, h \in MultiMaps, q \in MultiMaps, b \in Strings(MaxBodyLen) :
         wire = [NoWire EXCEPT !.stage = "sent",
                   !.sent = [method |-> m, headers |-> h, query |-> q, body |-> b]]

NextCodec == CaptureEncode \/ RetrieveDecode

SpecCodec == InitCodec /\ [][NextCodec]_vars

\* ---------------------------------------------------------------------------
\* The routing of one GET whose path starts with /api/bin/.  A path is its
\* sequence of characters.

\* Longest run of characters drawn for the bin part of a path.
MaxIdLen == 12

\* "/api/bin/", "/req/" and "/req/shift"
ApiBin == <<"/", "a", "p", "i", "/", "b", "i", "n", "/">>
ReqSep == <<"/", "r", "e", "q", "/">>
ReqShift == <<"/", "r", "e", "q", "/", "s", "h", "i", "f", "t">>

\* k hex digits
Digits(k) == [i \in 1..k |-> "0"]

\* What may follow the bin part: nothing, a slash, the shift suffix with
\* and without its first slash, a request part (empty, short, 8 digits), or
\* two request parts.
Tails ==
    {<<>>, <<"/">>, ReqShift, Tail(ReqShift), ReqSep, ReqSep \o Digits(1),
     ReqSep \o Digits(8), ReqSep \o Digits(1) \o ReqSep \o Digits(1)}

Paths == {ApiBin \o Digits(k) \o t : k \in 0..MaxIdLen, t \in Tails}

\* Go's s[a:b] is defined for 0 <= a <= b <= len(s) and panics otherwise.
InRange(s, a, b) == 0 <= a /\ a <= b /\ b <= Len(s)

\* s[a:b], where it is defined
Slice(s, a, b) == SubSeq(s, a + 1, b)

\* ServeMux redirects a path that path.Clean would change: here, one with
\* an empty segment.
Unclean(s) == \E i \in 1..(Len(s) - 1) : s[i] = "/" /\ s[i + 1] = "/"

\* strings.Split(s, "/req/"): the separators found from the i-th character
\* on, left to right and without overlap.
RECURSIVE CountSep(_, _)
CountSep(s, i) ==
    IF i + Len(ReqSep) - 1 > Len(s) THEN 0
    ELSE IF SubSeq(s, i, i + Len(ReqSep) - 1) = ReqSep
         THEN 1 + CountSep(s, i + Len(ReqSep))
         ELSE CountSep(s, i + 1)

\* getRequestHandler: the path split in two on "/req/", or 400
GetRequestPath(s) ==
    IF CountSep(Slice(s, Len(ApiBin), Len(s)), 1) + 1 # 2 THEN "BadRequest" ELSE "Get"

\* shiftRequestHandler: binID := path[len("/api/bin/") : len(path)-len("/req/shift")]
ShiftPath(s) ==
    IF InRange(s, Len(ApiBin), Len(s) - Len(ReqShift)) THEN "Shift" ELSE "Panic"

\* The GET branch of the handler registered on "/api/bin/": the handler a
\* path is given to, NotFound, or the panic of a slice out of range.
RouteGet(s) ==
    IF s = ApiBin THEN "NotFound"
    ELSE IF Len(s) > Len(ApiBin) + 8
         THEN IF ~InRange(s, Len(s) - Len(ReqShift), Len(s)) THEN "Panic"
              ELSE IF Slice(s, Len(s) - Len(ReqShift), Len(s)) = ReqShift
                   THEN ShiftPath(s)
              ELSE IF ~InRange(s, Len(ApiBin) + 8, Len(ApiBin) + 8 + Len(ReqSep))
                   THEN "Panic"
              ELSE IF Slice(s, Len(ApiBin) + 8, Len(ApiBin) + 8 + Len(ReqSep)) = ReqSep
                   THEN GetRequestPath(s)
              ELSE "NotFound"
         ELSE "GetBin"

\* ---- ServeMux: the request matched to the pattern "/api/bin/", or redirected
MuxMatch ==
    /\ route.answer = "received"
    /\ route' = [route EXCEPT !.answer = IF Unclean(route.path) THEN "Redirect"
                                         ELSE "matched"]
    /\ UNCHANGED <<storeVars, wire>>

\* ---- the handler of "/api/bin/", method GET
ServeGet ==
    /\ route.answer = "matched"
    /\ route' = [route EXCEPT !.answer = RouteGet(route.path)]
    /\ UNCHANGED <<storeVars, wire>>

\* Any path under /api/bin/ may be requested.
InitRoute ==
    /\ InitStore /\ storeFaults = FALSE /\ trackIds = FALSE /\ wire = NoWire
    /\ \E s \in Paths : route = [path |-> s, answer |-> "received"]

NextRoute == MuxMatch \/ ServeGet

SpecRoute == InitRoute /\ [][NextRoute]_vars

\* ======================================================================
\* Properties

\* The requests captured less the requests shifted, over all bins.
RECURSIVE SumStored(_)
SumStored(B) ==
    IF B = {} THEN 0
    ELSE LET b == CHOOSE x \in B : TRUE IN stored[b] + SumStored(B \ {b})

\* C1: no captured request is returned by more than one Shift call, however
\* concurrent Shift calls interleave; with one request in the bin and two
\* Shifts in flight, one returns it and the other answers NotFound.
C1_ShiftAtMostOnce ==
    \A s \in DOMAIN shiftCount : shiftCount[s] <= 1

\* C2: once DeleteBin(b) has answered, no request of bin b is stored: the
\* count of b is 0, and until b is created again Get(b, r) and Shift(b)
\* answer NotFound.
C2_DeleteCascades ==
    /\ ev.op = "DeleteBin" /\ ev.status = "OK" => CountFor(ev.binId) = 0
    /\ ev.op \in {"Get", "Shift"} /\ ev.binId \in deleted => ev.status = "NotFound"

\* C3: with one request at a time, Shift returns the requests of a bin in
\* strictly increasing insertedAt order, which is the order of capture, each
\* once: the request a Shift returns is strictly older than, and was captured
\* before, every request left in the bin; and Shift answers NotFound only
\* when nothing is left.
C3_ShiftFifo ==
    /\ ev.op = "Shift" /\ ev.status = "OK" =>
         /\ shiftCount[ev.req.seq] = 1
         /\ \A r \in requests : r.binId = ev.binId =>
                /\ ev.req.inserted < r.inserted
                /\ ev.req.seq < r.seq
    /\ ev.op = "Shift" /\ ev.status = "NotFound" => CountFor(ev.binId) = 0

\* C4: of two requests of a bin with the same insertedAt millisecond, Shift
\* returns the one inserted first.
C4_TieBreak ==
    ev.op = "Shift" /\ ev.status = "OK" =>
        \A r \in requests :
            r.binId = ev.binId /\ r.inserted = ev.req.inserted => ev.req.seq < r.seq

\* C5: a Capture whose bin is deleted between its liveness check and its
\* insert stores nothing: a Capture that answers with a request id has
\* stored it under a bin that exists.
C5_NoCaptureAfterDelete ==
    ev.op = "Capture" /\ ev.status = "OK" => BinRows(ev.binId) # {}

\* The answers of Capture's liveness check (the insert was not reached, or
\* is still to come).
CaptureChecked ==
    ev.op = "Capture" /\ ev.status \in {"NotFound", "Gone", "Pending"}

\* C6: Capture answers NotFound exactly when the bin does not exist, and for
\* a bin that exists Gone exactly when now > expiresAt (now = expiresAt is
\* let through).
C6_CaptureRejects ==
    CaptureChecked =>
        /\ ev.status = "NotFound" <=> BinRows(ev.binId) = {}
        /\ \A x \in BinRows(ev.binId) : ev.status = "Gone" <=> now > x.expires

\* C6: a Capture answered NotFound or Gone leaves the stored requests as
\* they were.
C6_RejectedStoresNothing ==
    [][ev'.op = "Capture" /\ ev'.status \in {"NotFound", "Gone"}
          => requests' = requests]_vars

\* C6: both parts.
C6_Capture == []C6_CaptureRejects /\ C6_RejectedStoresNothing

\* C6 happens: a Capture at now = expiresAt passes the liveness check.
C6_Witness ==
    /\ ev.op = "Capture" /\ ev.status = "Pending"
    /\ \E x \in BinRows(ev.binId) : now = x.expires

\* C7: DeleteBin answers OK for every bin id, and from then on GetBin of
\* that id answers NotFound until a bin with that id is created again.
C7_DeleteThenGetBin ==
    /\ ev.op = "DeleteBin" => ev.status = "OK" /\ BinRows(ev.binId) = {}
    /\ ev.op = "GetBin" /\ ev.binId \in deleted => ev.status = "NotFound"

\* C7 happens: GetBin answers NotFound for a bin that existed (requests were
\* captured into it) and was deleted.
C7_Witness ==
    /\ ev.op = "GetBin" /\ ev.status = "NotFound"
    /\ ev.binId \in deleted
    /\ stored[ev.binId] > 0

\* C8: a step whose statement failed in the store answers StorageError,
\* and a Capture that did not succeed has stored nothing.
C8_FaultSurfaces ==
    /\ ev.fault => ev.status = "StorageError"
    /\ ev.op = "Capture" /\ ev.status # "OK" =>
           Cardinality(requests) = SumStored(BinIds)

\* C9: the entries GetBin reports for a bin are the requests captured into
\* that bin id and not shifted since.
C9_EntriesCount ==
    ev.op = "GetBin" /\ ev.status = "OK" => ev.entries = stored[ev.binId]

\* C9 happens: GetBin reports one entry after a request was shifted.
C9_Witness ==
    /\ ev.op = "GetBin" /\ ev.status = "OK" /\ ev.entries = 1
    /\ \E s \in DOMAIN shiftCount : shiftCount[s] = 1

\* C10: CreateBin answers entries 0, and GetBin of a bin created and not
\* captured into since reports 0 entries.
C10_NewBinEmpty ==
    /\ ev.op = "CreateBin" /\ ev.status = "Created" => ev.entries = 0
    /\ ev.op = "GetBin" /\ ev.status = "OK" /\ ev.binId \in fresh => ev.entries = 0

\* A bin with this id is stored.
BinExists(b) == \E x \in bins : x.binId = b

\* A bin with this id is stored and the clock is past its expiresAt.
BinExpired(b) == \E x \in bins : x.binId = b /\ now > x.expires

\* C11: GetBin answers NotFound exactly when no bin of that id is stored,
\* whatever the time: a bin past its expiresAt is still returned, while a
\* Capture into it is answered Gone.
C11_ExpiredBinVisible ==
    /\ ev.op = "GetBin" => (ev.status = "NotFound" <=> ~BinExists(ev.binId))
    /\ ev.op = "Capture" /\ ev.reqId = NoId /\ BinExpired(ev.binId) =>
           ev.status = "Gone"

\* C11 happens: GetBin returns a bin that is past its expiresAt.
C11_Witness ==
    ev.op = "GetBin" /\ ev.status = "OK" /\ BinExpired(ev.binId)

\* C12: Get returns a record exactly when a stored request has that reqId
\* and that binId, and it is that record.
C12_GetExactPair ==
    ev.op = "Get" =>
        /\ ev.status = "OK" <=>
               \E r \in requests : r.reqId = ev.reqId /\ r.binId = ev.binId
        /\ ev.status = "OK" =>
               ev.req \in requests /\ ev.req.reqId = ev.reqId /\ ev.req.binId = ev.binId

\* C12: Get changes neither table, so the same Get again returns the same
\* record and a later Shift still finds the request.
C12_GetReadsOnly ==
    [][ev'.op = "Get" => requests' = requests /\ bins' = bins]_vars

\* C12: both parts.
C12_Get == []C12_GetExactPair /\ C12_GetReadsOnly

\* C12 happens: Get answers NotFound for the id of a request stored under
\* another bin.
C12_Witness ==
    /\ ev.op = "Get" /\ ev.status = "NotFound"
    /\ \E r \in requests : r.reqId = ev.reqId /\ r.binId # ev.binId

\* C13 as stated: once a Shift on a bin has returned the request with
\* identifier r, every later Get for r in that bin answers NotFound.
C13_ShiftedNeverFound ==
    ev.op = "Get" /\ <<ev.binId, ev.reqId>> \in shifted => ev.status = "NotFound"

\* C13 amended: a Shift leaves no request under the identifier it returned,
\* and a later Get for that identifier in that bin answers NotFound or
\* returns a request captured since under the same identifier, never the
\* one that was shifted.
C13_ShiftedGone ==
    /\ ev.op = "Shift" /\ ev.status = "OK" => RequestRows(ev.binId, ev.reqId) = {}
    /\ ev.op = "Get" /\ <<ev.binId, ev.reqId>> \in shifted /\ ev.status = "OK" =>
           shiftCount[ev.req.seq] = 0

\* C13 happens: a Get for a shifted identifier answers NotFound.
C13_Witness ==
    ev.op = "Get" /\ <<ev.binId, ev.reqId>> \in shifted /\ ev.status = "NotFound"

\* C14: every stored bin has expiresAt - createdAt = 1,800,000 ms.
C14_Lifetime == \A x \in bins : x.expires - x.created = 1800000

\* C14: a bin row, once stored, is never rewritten: it stays as it is until
\* a DeleteBin of its id removes it, and Capture, Get, Shift and GetBin leave
\* the bins table as it was.
C14_BinRowsFrozen ==
    [][/\ \A x \in bins : x \in bins' \/ (ev'.op = "DeleteBin" /\ ev'.binId = x.binId)
       /\ ev'.op \in {"Capture", "Get", "Shift", "GetBin"} => bins' = bins]_vars

\* C14: both parts.
C14_BinTimes == []C14_Lifetime /\ C14_BinRowsFrozen

\* C14 happens: a Shift has removed a request from a bin created earlier.
C14_Witness ==
    /\ ev.op = "Shift" /\ ev.status = "OK"
    /\ \E x \in bins : x.binId = ev.binId /\ now > x.created

\* C15: a CreateBin that draws the id of a stored bin, or a Capture that
\* draws the id of a stored request, answers StorageError and leaves both
\* tables as they were.
C15_IdCollision ==
    [][/\ ev'.op = "CreateBin" /\ BinExists(ev'.binId) =>
              ev'.status = "StorageError" /\ bins' = bins /\ requests' = requests
       /\ ev'.op = "Capture" /\ ev'.reqId # NoId
              /\ (\E r \in requests : r.reqId = ev'.reqId) =>
              ev'.status = "StorageError" /\ bins' = bins /\ requests' = requests]_vars

\* C15 happens: a Capture is refused for an identifier that stays stored
\* under another bin.
C15_Witness ==
    /\ ev.op = "Capture" /\ ev.status = "StorageError"
    /\ \E r \in requests : r.reqId = ev.reqId /\ r.binId # ev.binId

\* C16: a request decoded by Get or Shift carries what was submitted: the
\* method, each header and query name with the first value submitted for
\* it, and the body byte for byte.
C16_PayloadPreserved ==
    wire.stage = "got" =>
        /\ wire.got.method = wire.sent.method
        /\ wire.got.headers = FirstValues(wire.sent.headers)
        /\ wire.got.query = FirstValues(wire.sent.query)
        /\ wire.got.body = wire.sent.body

\* C17: the requests of a bin that has expired and was not deleted stay
\* retrievable: Get answers NotFound only for a pair that is not stored,
\* Shift answers NotFound only when the bin holds no request, and a Shift
\* that answers OK returns a request of that bin and removes it.
C17_ExpiredBinServes ==
    BinExpired(ev.binId) =>
        /\ ev.op = "Get" /\ ev.status = "NotFound" =>
               ~\E r \in requests : r.binId = ev.binId /\ r.reqId = ev.reqId
        /\ ev.op = "Shift" /\ ev.status = "NotFound" =>
               ~\E r \in requests : r.binId = ev.binId
        /\ ev.op = "Shift" /\ ev.status = "OK" =>
               ev.req.binId = ev.binId /\ ev.req \notin requests

\* C17: the passing of time removes nothing from either table.
C17_ExpiryRemovesNothing ==
    [][now' # now => requests' = requests /\ bins' = bins]_vars

\* C17: both parts.
C17_RetrievableAfterExpiry == []C17_ExpiredBinServes /\ C17_ExpiryRemovesNothing

\* C17 happens: a Shift returns, from a bin that has expired, a request
\* captured while the bin was live.
C17_Witness ==
    /\ ev.op = "Shift" /\ ev.status = "OK"
    /\ \E x \in bins : x.binId = ev.binId /\ now > x.expires
                         /\ ev.req.inserted <= x.expires

\* C18: every GET under /api/bin/ is answered, whatever the path: no slice
\* of the path in the router or in the shift handler is out of range.
C18_EveryPathAnswered == route.answer # "Panic"

\* C19 as stated: every stored request has insertedAt <= expiresAt of the
\* bin it belongs to.
C19_InsertedBeforeExpiry ==
    \A r \in requests : \A x \in bins : x.binId = r.binId => r.inserted <= x.expires

\* C19 amended: Capture's liveness check passes only at a time <= expiresAt
\* of the bin, and the request is stamped with the clock read at the insert,
\* after the check.
C19_LiveWhenChecked ==
    /\ ev.op = "Capture" /\ ev.status = "Pending" =>
           \E x \in bins : x.binId = ev.binId /\ now <= x.expires
    /\ ev.op = "Capture" /\ ev.status = "OK" =>
           ev.req \in requests /\ ev.req.inserted = now

\* C19 happens: the clock passes expiresAt between the check and the insert,
\* and the request stored carries an insertedAt after expiresAt.
C19_Witness ==
    /\ ev.op = "Capture" /\ ev.status = "OK"
    /\ \E x \in bins : x.binId = ev.binId /\ ev.req.inserted > x.expires

\* C20: Capture, Get, Shift and DeleteBin on a bin leave the requests of
\* every other bin as they were, and a Shift that answers OK returns a
\* request of its own bin and removes that record and no other.
C20_BinIsolation ==
    [][ev'.op \in {"Capture", "Get", "Shift", "DeleteBin"} =>
           /\ \A r \in requests \cup requests' :
                  r.binId # ev'.binId => (r \in requests <=> r \in requests')
           /\ ev'.op = "Shift" /\ ev'.status = "OK" =>
                  /\ ev'.req.binId = ev'.binId
                  /\ requests \ requests' = {ev'.req}
                  /\ requests' \subseteq requests]_vars

=============================================================================
